---- MODULE Spec2Model ----
(***************************************************************************)
(* Model of the caching service of cache_fastapi/fast_api.py: the          *)
(* transformation cache (get_or_cache_transformation), the payload builder *)
(* (create_payload, POST /payload) and the payload reader (read_payload,   *)
(* GET /payload/{identifier}) over the two tables CachedResult and         *)
(* Payload.                                                                *)
(*                                                                         *)
(* A Python str is a sequence of Unicode code points (97 is "a", 65 is     *)
(* "A", 44 is ",", 32 is " ").  A 32-bit word of the digest computation is *)
(* a pair <<high 16 bits, low 16 bits>>.                                   *)
(***************************************************************************)
EXTENDS Integers, Sequences, FiniteSets, TLC

VARIABLES
    cached_results,     \* the table CachedResult: the rows in the order of their ids
    payloads,           \* the table Payload: the rows in the order of their ids
    pc,                 \* where the request handled by each worker stands
    request,            \* the PayloadRequest a client sent: list_1 and list_2
    transformed_1,      \* create_payload's transformed_1, as far as it is built
    transformed_2,      \* create_payload's transformed_2, as far as it is built
    interleaved_result, \* create_payload's interleaved_result
    identifier,         \* create_payload's identifier / read_payload's path parameter
    response,           \* the HTTP response of the request
    accepted,           \* number of requests accepted so far
    session             \* number of Session objects each worker's request holds open

vars == <<cached_results, payloads, pc, request, transformed_1, transformed_2,
          interleaved_result, identifier, response, accepted, session>>

(***************************************************************************)
(* Bounds of the model.                                                    *)
(***************************************************************************)
\* longest list_1 / list_2 of a request among concurrent requests
MaxLen == 1
\* longest list_1 / list_2 of the request of a single client on a fresh store
MaxLongLen == 3
\* number of requests the server handles at the same time (threadpool workers)
NProcs == 2
\* number of requests accepted in one run
MaxRequests == 3

(***************************************************************************)
(* Strings.                                                                *)
(***************************************************************************)
RECURSIVE Concat(_)
\* "".join(seq): the concatenation of a sequence of strings
Concat(ss) == IF ss = <<>> THEN <<>> ELSE Head(ss) \o Concat(Tail(ss))

\* str.upper() on one code point: ASCII and Latin-1 lower case letters map to
\* the letter 32 below, 223 (sharp s) maps to "SS", 255 maps to U+0178, 181
\* (micro sign) to U+039C; everything else is unchanged
UpperChar(c) ==
    IF c >= 97 /\ c <= 122 THEN <<c - 32>>
    ELSE IF c = 223 THEN <<83, 83>>
    ELSE IF c = 181 THEN <<924>>
    ELSE IF c = 255 THEN <<376>>
    ELSE IF c >= 224 /\ c <= 254 /\ c # 247 THEN <<c - 32>>
    ELSE <<c>>

\* the mutant of transformer_function: the transformation left out
transformer_function_identity(input_string) == input_string

\* transformer_function: input_string.upper()
transformer_function(input_string) ==
    Concat([i \in 1..Len(input_string) |-> UpperChar(input_string[i])])

\* the separator of the join, ", "
Separator == <<44, 32>>

RECURSIVE Join(_, _)
\* sep.join(parts)
Join(sep, parts) ==
    IF parts = <<>> THEN <<>>
    ELSE IF Len(parts) = 1 THEN parts[1]
    ELSE parts[1] \o sep \o Join(sep, Tail(parts))

\* zip(a, b): the pairs up to the shorter length
Zip(a, b) ==
    LET n == IF Len(a) < Len(b) THEN Len(a) ELSE Len(b)
    IN  [i \in 1..n |-> <<a[i], b[i]>>]

\* sum(tuples, ()): the tuples concatenated into one
SumTuples(ts) == Concat(ts)

\* the mutant of Interleave: the two lists one after the other
Interleave_appended(t1, t2) == t1 \o t2

\* sum(zip(t1, t2), ())
Interleave(t1, t2) == SumTuples(Zip(t1, t2))

(***************************************************************************)
(* UTF-8 and MD5 (hashlib.md5(...).hexdigest(), RFC 1321).                 *)
(***************************************************************************)
\* str.encode() of one code point (up to U+FFFF)
Utf8Char(c) ==
    IF c < 128 THEN <<c>>
    ELSE IF c < 2048 THEN <<192 + (c \div 64), 128 + (c % 64)>>
    ELSE <<224 + (c \div 4096), 128 + ((c \div 64) % 64), 128 + (c % 64)>>

\* str.encode(): the UTF-8 bytes of a string
Utf8(s) == Concat([i \in 1..Len(s) |-> Utf8Char(s[i])])

Pow2(n) == 2 ^ n

RECURSIVE BitAnd(_, _, _)
\* bitwise and of two n-bit numbers
BitAnd(a, b, n) ==
    IF n = 0 THEN 0
    ELSE (IF a % 2 = 1 /\ b % 2 = 1 THEN 1 ELSE 0) + 2 * BitAnd(a \div 2, b \div 2, n - 1)

RECURSIVE BitOr(_, _, _)
\* bitwise or of two n-bit numbers
BitOr(a, b, n) ==
    IF n = 0 THEN 0
    ELSE (IF a % 2 = 1 \/ b % 2 = 1 THEN 1 ELSE 0) + 2 * BitOr(a \div 2, b \div 2, n - 1)

RECURSIVE BitXor(_, _, _)
\* bitwise exclusive or of two n-bit numbers
BitXor(a, b, n) ==
    IF n = 0 THEN 0
    ELSE (IF a % 2 # b % 2 THEN 1 ELSE 0) + 2 * BitXor(a \div 2, b \div 2, n - 1)

\* the bitwise operations on 32-bit words
WAnd(w1, w2) == <<BitAnd(w1[1], w2[1], 16), BitAnd(w1[2], w2[2], 16)>>
WOr(w1, w2) == <<BitOr(w1[1], w2[1], 16), BitOr(w1[2], w2[2], 16)>>
WXor(w1, w2) == <<BitXor(w1[1], w2[1], 16), BitXor(w1[2], w2[2], 16)>>
WNot(w1) == <<65535 - w1[1], 65535 - w1[2]>>

\* addition modulo 2^32
WAdd(w1, w2) ==
    LET lo == w1[2] + w2[2]
    IN  <<(w1[1] + w2[1] + (lo \div 65536)) % 65536, lo % 65536>>

\* rotation to the left by s bits, 0 < s < 32
WRotl(w1, sh) ==
    LET wr == IF sh >= 16 THEN <<w1[2], w1[1]>> ELSE w1
        r == sh % 16
    IN  <<((wr[1] * Pow2(r)) % 65536) + (wr[2] \div Pow2(16 - r)),
          ((wr[2] * Pow2(r)) % 65536) + (wr[1] \div Pow2(16 - r))>>

\* the per-round shift amounts
MD5Shift ==
    <<7, 12, 17, 22, 7, 12, 17, 22, 7, 12, 17, 22, 7, 12, 17, 22,
      5, 9, 14, 20, 5, 9, 14, 20, 5, 9, 14, 20, 5, 9, 14, 20,
      4, 11, 16, 23, 4, 11, 16, 23, 4, 11, 16, 23, 4, 11, 16, 23,
      6, 10, 15, 21, 6, 10, 15, 21, 6, 10, 15, 21, 6, 10, 15, 21>>

\* the per-round constants floor(2^32 * abs(sin(i)))
MD5K ==
    <<<<55146, 42104>>, <<59591, 46934>>, <<9248, 28891>>, <<49597, 52974>>,
      <<62844, 4015>>, <<18311, 50730>>, <<43056, 17939>>, <<64838, 38145>>,
      <<27008, 39128>>, <<35652, 63407>>, <<65535, 23473>>, <<35164, 55230>>,
      <<27536, 4386>>, <<64920, 29075>>, <<42617, 17294>>, <<18868, 2081>>,
      <<63006, 9570>>, <<49216, 45888>>, <<9822, 23121>>, <<59830, 51114>>,
      <<54831, 4189>>, <<580, 5203>>, <<55457, 59009>>, <<59347, 64456>>,
      <<8673, 52710>>, <<49975, 2006>>, <<62677, 3463>>, <<17754, 5357>>,
      <<43491, 59653>>, <<64751, 41976>>, <<26479, 729>>, <<36138, 19594>>,
      <<65530, 14658>>, <<34673, 63105>>, <<28061, 24866>>, <<64997, 14348>>,
      <<42174, 59972>>, <<19422, 53161>>, <<63163, 19296>>, <<48831, 48240>>,
      <<10395, 32454>>, <<60065, 10234>>, <<54511, 12421>>, <<1160, 7429>>,
      <<55764, 53305>>, <<59099, 39397>>, <<8098, 31992>>, <<50348, 22117>>,
      <<62505, 8772>>, <<17194, 65431>>, <<43924, 9127>>, <<64659, 41017>>,
      <<25947, 22979>>, <<36620, 52370>>, <<65519, 62589>>, <<34180, 24017>>,
      <<28584, 32335>>, <<65068, 59104>>, <<41729, 17172>>, <<19976, 4513>>,
      <<63315, 32386>>, <<48442, 62005>>, <<10967, 53947>>, <<60294, 54161>>>>

\* the initial chaining value A, B, C, D
MD5Init == <<<<26437, 8961>>, <<61389, 43913>>, <<39098, 56574>>, <<4146, 21622>>>>

\* the message padded to a multiple of 64 bytes: 0x80, zeros, and the length
\* in bits as 8 little-endian bytes
MD5Pad(bytes) ==
    LET n == Len(bytes)
        z == (119 - (n % 64)) % 64
        bits == n * 8
    IN  bytes \o <<128>> \o [i \in 1..z |-> 0]
        \o [i \in 1..8 |-> IF i <= 4 THEN (bits \div Pow2(8 * (i - 1))) % 256 ELSE 0]

\* the 16 little-endian words of block b (from 0) of the padded message
MD5Words(padded, b) ==
    [j \in 1..16 |->
        LET o == 64 * b + 4 * (j - 1)
        IN  <<padded[o + 4] * 256 + padded[o + 3], padded[o + 2] * 256 + padded[o + 1]>>]

\* round i (from 0) of the compression function on the state <<A, B, C, D>>
MD5Round(st, M, i) ==
    LET A == st[1]
        B == st[2]
        C == st[3]
        D == st[4]
        F == IF i < 16 THEN WOr(WAnd(B, C), WAnd(WNot(B), D))
             ELSE IF i < 32 THEN WOr(WAnd(D, B), WAnd(WNot(D), C))
             ELSE IF i < 48 THEN WXor(WXor(B, C), D)
             ELSE WXor(C, WOr(B, WNot(D)))
        g == IF i < 16 THEN i
             ELSE IF i < 32 THEN (5 * i + 1) % 16
             ELSE IF i < 48 THEN (3 * i + 5) % 16
             ELSE (7 * i) % 16
        T == WAdd(WAdd(WAdd(A, F), MD5K[i + 1]), M[g + 1])
    IN  <<D, WAdd(B, WRotl(T, MD5Shift[i + 1])), B, C>>

RECURSIVE MD5Rounds(_, _, _)
\* rounds i .. 63 on the state st of four words
MD5Rounds(st, M, i) ==
    IF i = 64 \/ Len(st) # 4 THEN st ELSE MD5Rounds(MD5Round(st, M, i), M, i + 1)

\* the compression function: one 64-byte block folded into the chaining value
MD5Compress(st, M) ==
    LET r == MD5Rounds(st, M, 0)
    IN  <<WAdd(st[1], r[1]), WAdd(st[2], r[2]), WAdd(st[3], r[3]), WAdd(st[4], r[4])>>

\* the chaining value after all blocks of the padded message
MD5Blocks(padded) ==
    LET nb == Len(padded) \div 64
        cv[b \in 0..nb] ==
            IF b = 0 THEN MD5Init ELSE MD5Compress(cv[b - 1], MD5Words(padded, b - 1))
    IN  cv[nb]

\* the code point of a lower case hexadecimal digit
HexDigit(d) == IF d < 10 THEN 48 + d ELSE 87 + d

\* the 8 hexadecimal digits of a word, its bytes in little-endian order
WordHex(w) ==
    LET byte(k) == IF k = 1 THEN w[2] % 256
                   ELSE IF k = 2 THEN w[2] \div 256
                   ELSE IF k = 3 THEN w[1] % 256
                   ELSE w[1] \div 256
    IN  [i \in 1..8 |->
            LET v == byte((i + 1) \div 2)
            IN  HexDigit(IF i % 2 = 1 THEN v \div 16 ELSE v % 16)]

\* md5(bytes).hexdigest(): 32 lower case hexadecimal digits
MD5Hex(bytes) ==
    LET st == MD5Blocks(MD5Pad(bytes))
    IN  WordHex(st[1]) \o WordHex(st[2]) \o WordHex(st[3]) \o WordHex(st[4])

(***************************************************************************)
(* The requests of the model.                                              *)
(***************************************************************************)
\* the workers that handle requests at the same time
Procs == 1..NProcs

\* the strings of a request: "", "a" and "A"
Strs == {<<>>, <<97>>, <<65>>}

\* the lists of at most n strings
ListsUpTo(n) == UNION {[1..k -> Strs] : k \in 0..n}

\* the lists of strings of a request
Lists == ListsUpTo(MaxLen)
LongLists == ListsUpTo(MaxLongLen)

\* no request / no value
NoRequest == [list_1 |-> <<>>, list_2 |-> <<>>, sent |-> FALSE]
NoResponse == [status_code |-> 0, key |-> "", value |-> <<>>]

\* the detail of the 400 response, "Lists must be of the same length."
DetailSameLength ==
    <<76, 105, 115, 116, 115, 32, 109, 117, 115, 116, 32, 98, 101, 32, 111, 102,
      32, 116, 104, 101, 32, 115, 97, 109, 101, 32, 108, 101, 110, 103, 116, 104, 46>>

\* the detail of the 404 response, "Payload not found."
DetailNotFound ==
    <<80, 97, 121, 108, 111, 97, 100, 32, 110, 111, 116, 32, 102, 111, 117, 110, 100, 46>>

\* the identifier the test asks for, "nonexistent_identifier"
NonexistentIdentifier ==
    <<110, 111, 110, 101, 120, 105, 115, 116, 101, 110, 116, 95,
      105, 100, 101, 110, 116, 105, 102, 105, 101, 114>>

\* the joined strings that requests with lists of at most n strings produce
JoinedUpTo(n) ==
    UNION {{Join(Separator, Interleave([i \in 1..k |-> transformer_function(q[1][i])],
                                       [i \in 1..k |-> transformer_function(q[2][i])])) :
                q \in [1..k -> Strs] \X [1..k -> Strs]} : k \in 0..n}

\* the joined strings that requests of the model produce, with their digests
\* computed once
JoinedStrings == JoinedUpTo(MaxLen) \cup JoinedUpTo(MaxLongLen)

DigestTable == [js \in JoinedStrings |-> MD5Hex(Utf8(js))]

\* a digest object that was never fed the string: md5().hexdigest()
Md5HexDigest_unfed(str) == MD5Hex(<<>>)

\* md5(interleaved_result.encode()).hexdigest()
Md5HexDigest(str) ==
    IF str \in JoinedStrings THEN DigestTable[str] ELSE MD5Hex(Utf8(str))

\* the identifiers a client asks read_payload for
LookupIdentifiers == {NonexistentIdentifier} \cup {DigestTable[js] : js \in JoinedUpTo(MaxLen)}

(***************************************************************************)
(* The tables.                                                             *)
(***************************************************************************)
\* the mutant of SelectCachedResult: the where clause left out
SelectCachedResult_any(table, input_string) == {table[i] : i \in 1..Len(table)}

\* the mutant of SelectCachedResult: the lookup never finds a row
SelectCachedResult_none(table, input_string) == {}

\* select(CachedResult).where(CachedResult.input_string == input_string): the
\* rows that match
SelectCachedResult(table, input_string) ==
    {table[i] : i \in {j \in 1..Len(table) : table[j].input_string = input_string}}

\* the mutant of SelectPayload: the where clause left out
SelectPayload_any(table, ident) == {table[i] : i \in 1..Len(table)}

\* the mutant of SelectPayload: the lookup never finds a row
SelectPayload_none(table, ident) == {}

\* select(Payload).where(Payload.identifier == identifier): the rows that match
SelectPayload(table, ident) ==
    {table[i] : i \in {j \in 1..Len(table) : table[j].identifier = ident}}

\* an insert that is dropped when a row with the same columns is already there
AddRow_unless_present(table, row) ==
    IF \E i \in 1..Len(table) : \A col \in DOMAIN row : table[i][col] = row[col]
    THEN table
    ELSE Append(table, [id |-> Len(table) + 1] @@ row)

\* the mutant of AddRow: the new row takes the place of the newest row
AddRow_overwrite(table, row) ==
    IF table = <<>> THEN <<[id |-> 1] @@ row>>
    ELSE [table EXCEPT ![Len(table)] = [id |-> Len(table)] @@ row]

\* session.add(row); session.commit(): the row gets the next id
AddRow(table, row) == Append(table, [id |-> Len(table) + 1] @@ row)

(***************************************************************************)
(* The state machine.                                                      *)
(***************************************************************************)
Init ==
    /\ cached_results = <<>>
    /\ payloads = <<>>
    /\ pc = [p \in Procs |-> "idle"]
    /\ request = [p \in Procs |-> NoRequest]
    /\ transformed_1 = [p \in Procs |-> <<>>]
    /\ transformed_2 = [p \in Procs |-> <<>>]
    /\ interleaved_result = [p \in Procs |-> <<>>]
    /\ identifier = [p \in Procs |-> <<>>]
    /\ response = [p \in Procs |-> NoResponse]
    /\ accepted = 0
    /\ session = [p \in Procs |-> 0]

\* get_session: "with Session(engine) as session" is entered for the request
\* of worker p
OpenSession(ss, p) == [ss EXCEPT ![p] = @ + 1]

\* the with block is left only when the request ends with 200
CloseSession_on_return(ss, p, status_code) ==
    IF status_code = 200 THEN [ss EXCEPT ![p] = @ - 1] ELSE ss

\* get_session: the with block is left, after the return of the handler or
\* through its HTTPException, and the Session is closed
CloseSession(ss, p, status_code) == [ss EXCEPT ![p] = @ - 1]

\* the list comprehension that is running: 1 while transformed_1 is short of
\* list_1, then 2 while transformed_2 is short of list_2, then 0
CurrentList(p) ==
    IF Len(transformed_1[p]) < Len(request[p].list_1) THEN 1
    ELSE IF Len(transformed_2[p]) < Len(request[p].list_2) THEN 2
    ELSE 0

\* the argument s of the running call get_or_cache_transformation(s, session)
CurrentInput(p) ==
    IF CurrentList(p) = 1 THEN request[p].list_1[Len(transformed_1[p]) + 1]
    ELSE request[p].list_2[Len(transformed_2[p]) + 1]

\* get_or_cache_transformation returns value: it is appended to the list
\* being built, and the next call or the join follows
ReturnTransformed(p, value) ==
    LET t1 == IF CurrentList(p) = 1 THEN Append(transformed_1[p], value)
              ELSE transformed_1[p]
        t2 == IF CurrentList(p) = 2 THEN Append(transformed_2[p], value)
              ELSE transformed_2[p]
    IN  /\ transformed_1' = [transformed_1 EXCEPT ![p] = t1]
        /\ transformed_2' = [transformed_2 EXCEPT ![p] = t2]
        /\ pc' = [pc EXCEPT ![p] =
                    IF Len(t1) = Len(request[p].list_1) /\ Len(t2) = Len(request[p].list_2)
                    THEN "payload_select" ELSE "cache_select"]

\* the mutant of ListsMismatch: the length check left out
ListsMismatch_never(list_1, list_2) == FALSE

\* len(request.list_1) != len(request.list_2)
ListsMismatch(list_1, list_2) == Len(list_1) # Len(list_2)

\* POST /payload arrives: the length check of create_payload
CreatePayload(p, list_1, list_2) ==
    /\ pc[p] = "idle"
    /\ accepted' = accepted + 1
    /\ request' = [request EXCEPT ![p] = [list_1 |-> list_1, list_2 |-> list_2, sent |-> TRUE]]
    /\ IF ListsMismatch(list_1, list_2)
       THEN /\ response' = [response EXCEPT ![p] =
                    [status_code |-> 400, key |-> "detail", value |-> DetailSameLength]]
            /\ pc' = [pc EXCEPT ![p] = "done"]
            /\ session' = CloseSession(OpenSession(session, p), p, 400)
       ELSE /\ response' = response
            /\ pc' = [pc EXCEPT ![p] = IF Len(list_1) = 0 THEN "payload_select"
                                       ELSE "cache_select"]
            /\ session' = OpenSession(session, p)
    /\ UNCHANGED <<cached_results, payloads, transformed_1, transformed_2,
                   interleaved_result, identifier>>

\* get_or_cache_transformation: the select, and the return of a cached value
CacheSelect(p) ==
    /\ pc[p] = "cache_select"
    /\ LET found == SelectCachedResult(cached_results, CurrentInput(p))
       IN  IF found # {}
           THEN \E existing_entry \in found :
                    ReturnTransformed(p, existing_entry.transformed_string)
           ELSE /\ pc' = [pc EXCEPT ![p] = "cache_insert"]
                /\ UNCHANGED <<transformed_1, transformed_2>>
    /\ UNCHANGED <<cached_results, payloads, request, interleaved_result, identifier,
                   response, accepted, session>>

\* get_or_cache_transformation: the transformation, the insert and the commit
CacheInsert(p) ==
    /\ pc[p] = "cache_insert"
    /\ LET transformed_string == transformer_function(CurrentInput(p))
       IN  /\ cached_results' = AddRow(cached_results,
                    [input_string |-> CurrentInput(p),
                     transformed_string |-> transformed_string])
           /\ ReturnTransformed(p, transformed_string)
    /\ UNCHANGED <<payloads, request, interleaved_result, identifier, response, accepted,
                   session>>

\* create_payload: the join, the digest and the select of the payload
PayloadSelect(p) ==
    /\ pc[p] = "payload_select"
    /\ LET joined == Join(Separator, Interleave(transformed_1[p], transformed_2[p]))
           digest == Md5HexDigest(joined)
           found == SelectPayload(payloads, digest)
       IN  IF found # {}
           THEN /\ \E existing_payload \in found :
                        response' = [response EXCEPT ![p] =
                            [status_code |-> 200, key |-> "identifier",
                             value |-> existing_payload.identifier]]
                /\ pc' = [pc EXCEPT ![p] = "done"]
                /\ session' = CloseSession(session, p, 200)
                /\ transformed_1' = [transformed_1 EXCEPT ![p] = <<>>]
                /\ transformed_2' = [transformed_2 EXCEPT ![p] = <<>>]
                /\ UNCHANGED <<interleaved_result, identifier>>
           ELSE /\ interleaved_result' = [interleaved_result EXCEPT ![p] = joined]
                /\ identifier' = [identifier EXCEPT ![p] = digest]
                /\ pc' = [pc EXCEPT ![p] = "payload_insert"]
                /\ transformed_1' = [transformed_1 EXCEPT ![p] = <<>>]
                /\ transformed_2' = [transformed_2 EXCEPT ![p] = <<>>]
                /\ response' = response
                /\ session' = session
    /\ UNCHANGED <<cached_results, payloads, request, accepted>>

\* create_payload: the insert and the commit of the new payload
PayloadInsert(p) ==
    /\ pc[p] = "payload_insert"
    /\ payloads' = AddRow(payloads,
            [identifier |-> identifier[p], output |-> interleaved_result[p]])
    /\ response' = [response EXCEPT ![p] =
            [status_code |-> 200, key |-> "identifier", value |-> identifier[p]]]
    /\ pc' = [pc EXCEPT ![p] = "done"]
    /\ session' = CloseSession(session, p, 200)
    /\ interleaved_result' = [interleaved_result EXCEPT ![p] = <<>>]
    /\ identifier' = [identifier EXCEPT ![p] = <<>>]
    /\ UNCHANGED <<cached_results, request, transformed_1, transformed_2, accepted>>

\* read_payload: the select and the response
ReadPayloadResponse(p, ident) ==
    LET found == SelectPayload(payloads, ident)
    IN  /\ IF found = {}
           THEN response' = [response EXCEPT ![p] =
                    [status_code |-> 404, key |-> "detail", value |-> DetailNotFound]]
           ELSE \E payload \in found :
                    response' = [response EXCEPT ![p] =
                        [status_code |-> 200, key |-> "output", value |-> payload.output]]
        /\ session' = CloseSession(OpenSession(session, p), p,
                                   IF found = {} THEN 404 ELSE 200)
        /\ identifier' = [identifier EXCEPT ![p] = ident]
        /\ pc' = [pc EXCEPT ![p] = "done"]

\* a lookup that stores an empty payload under an identifier it did not find
ReadPayload_get_or_create(p, ident) ==
    /\ pc[p] = "idle"
    /\ accepted' = accepted + 1
    /\ ReadPayloadResponse(p, ident)
    /\ payloads' = IF SelectPayload(payloads, ident) = {}
                   THEN AddRow(payloads, [identifier |-> ident, output |-> <<>>])
                   ELSE payloads
    /\ UNCHANGED <<cached_results, request, transformed_1, transformed_2,
                   interleaved_result>>

\* GET /payload/{identifier} arrives with an identifier of the client's choice
ReadPayload(p, ident) ==
    /\ pc[p] = "idle"
    /\ accepted' = accepted + 1
    /\ ReadPayloadResponse(p, ident)
    /\ UNCHANGED <<cached_results, payloads, request, transformed_1, transformed_2,
                   interleaved_result>>

\* the client of a POST /payload that returned an identifier asks for it with
\* GET /payload/{identifier} (test_read_existing_payload)
ReadBack(p) ==
    /\ pc[p] = "done"
    /\ response[p].status_code = 200
    /\ response[p].key = "identifier"
    /\ accepted' = accepted + 1
    /\ ReadPayloadResponse(p, response[p].value)
    /\ UNCHANGED <<cached_results, payloads, request, transformed_1, transformed_2,
                   interleaved_result>>

\* the response is delivered and the worker is free again
Finish(p) ==
    /\ pc[p] = "done"
    /\ pc' = [pc EXCEPT ![p] = "idle"]
    /\ request' = [request EXCEPT ![p] = NoRequest]
    /\ identifier' = [identifier EXCEPT ![p] = <<>>]
    /\ response' = [response EXCEPT ![p] = NoResponse]
    /\ UNCHANGED <<cached_results, payloads, transformed_1, transformed_2,
                   interleaved_result, accepted, session>>

\* a request is being handled by worker p
InProgress(p) == pc[p] \notin {"idle", "done"}

\* the server accepts another request
MayAccept == accepted < MaxRequests

Next ==
    \E p \in Procs :
        \/ /\ MayAccept
           /\ \E list_1 \in Lists, list_2 \in Lists : CreatePayload(p, list_1, list_2)
        \/ CacheSelect(p)
        \/ CacheInsert(p)
        \/ PayloadSelect(p)
        \/ PayloadInsert(p)
        \/ /\ MayAccept
           /\ \E ident \in LookupIdentifiers : ReadPayload(p, ident)
        \/ /\ MayAccept
           /\ ReadBack(p)
        \/ Finish(p)

\* the requests handled concurrently, their steps interleaved
Spec == Init /\ [][Next]_vars

\* no request is in progress
Quiet == \A q \in Procs : ~InProgress(q)

\* one request at a time: a request arrives only when no other is in progress
NextSeq ==
    \E p \in Procs :
        \/ /\ MayAccept /\ Quiet
           /\ \E list_1 \in Lists, list_2 \in Lists : CreatePayload(p, list_1, list_2)
        \/ CacheSelect(p)
        \/ CacheInsert(p)
        \/ PayloadSelect(p)
        \/ PayloadInsert(p)
        \/ /\ MayAccept /\ Quiet
           /\ \E ident \in LookupIdentifiers : ReadPayload(p, ident)
        \/ /\ MayAccept /\ Quiet
           /\ ReadBack(p)
        \/ Finish(p)

SeqSpec == Init /\ [][NextSeq]_vars

\* a single client on a fresh store: one POST /payload with lists up to
\* MaxLongLen, then the GET of the identifier it returned
NextLong ==
    \/ /\ accepted = 0
       /\ \E list_1 \in LongLists, list_2 \in LongLists : CreatePayload(1, list_1, list_2)
    \/ CacheSelect(1)
    \/ CacheInsert(1)
    \/ PayloadSelect(1)
    \/ PayloadInsert(1)
    \/ ReadBack(1)

LongSpec == Init /\ [][NextLong]_vars

(***************************************************************************)
(* What the specification says of the results, stated without the code's   *)
(* own operators.                                                          *)
(***************************************************************************)
\* transform(s) for a string of ASCII characters: its upper case form
Uppercase(str) ==
    [i \in 1..Len(str) |-> IF str[i] >= 97 /\ str[i] <= 122 THEN str[i] - 32 ELSE str[i]]

\* t1[0], t2[0], t1[1], t2[1], ... with ", " between consecutive elements
ExpectedJoined(l1, l2) ==
    LET n == Len(l1)
        elems == [k \in 1..(2 * n) |->
                    IF k % 2 = 1 THEN Uppercase(l1[(k + 1) \div 2])
                    ELSE Uppercase(l2[k \div 2])]
    IN  Concat([k \in 1..(2 * n) |-> IF k = 1 THEN elems[k] ELSE <<44, 32>> \o elems[k]])

\* the request of worker p has ended with an identifier
BuildDone(p) ==
    pc[p] = "done" /\ response[p].status_code = 200 /\ response[p].key = "identifier"

\* the request of worker p has ended with the length mismatch
BuildRejected(p) == pc[p] = "done" /\ response[p].status_code = 400

\* a GET of worker p has ended
LookupDone(p) ==
    /\ pc[p] = "done"
    /\ \/ response[p].status_code = 200 /\ response[p].key = "output"
       \/ response[p].status_code = 404

\* the rows of the Payload table with identifier ident
PayloadRows(ident) == {i \in 1..Len(payloads) : payloads[i].identifier = ident}

\* the rows of the CachedResult table with input string str
CachedRows(str) == {i \in 1..Len(cached_results) : cached_results[i].input_string = str}

Response200(k, v) == [status_code |-> 200, key |-> k, value |-> v]
Response400 == [status_code |-> 400, key |-> "detail", value |-> DetailSameLength]
Response404 == [status_code |-> 404, key |-> "detail", value |-> DetailNotFound]

(***************************************************************************)
(* The claims.                                                             *)
(***************************************************************************)
\* C1: round trip. A client that posts equal-length lists and then gets the
\* identifier it was given receives 200 with exactly the joined string of its
\* lists, whatever requests the store has served before or serves meanwhile.
C1_RoundTrip ==
    \A p \in Procs :
        (LookupDone(p) /\ request[p].sent) =>
            response[p] = Response200("output",
                                      ExpectedJoined(request[p].list_1, request[p].list_2))

\* a read back of a one-element request on a store that already held the
\* payload of another request
C1_Witness ==
    \E p \in Procs :
        /\ LookupDone(p) /\ request[p].sent
        /\ request[p].list_1 = <<<<97>>>> /\ request[p].list_2 = <<<<>>>>
        /\ response[p] = Response200("output", <<65, 44, 32>>)
        /\ Len(payloads) >= 2
        /\ payloads[1].identifier # identifier[p]

\* C2: content addressing. Under sequential requests, two builds whose inputs
\* produce the same joined string return the same identifier, and the store
\* holds exactly one Payload row for it.
C2_IdempotentBuild ==
    \A p, q \in Procs :
        (/\ BuildDone(p) /\ BuildDone(q)
         /\ ExpectedJoined(request[p].list_1, request[p].list_2)
                = ExpectedJoined(request[q].list_1, request[q].list_2)) =>
            /\ response[p].value = response[q].value
            /\ Cardinality(PayloadRows(response[p].value)) = 1

\* two builds of different inputs with the same joined string, a third request
\* between them
C2_Witness ==
    \E p, q \in Procs :
        /\ p # q /\ BuildDone(p) /\ BuildDone(q)
        /\ request[p].list_1 = <<<<97>>>> /\ request[q].list_1 = <<<<65>>>>
        /\ request[p].list_2 = request[q].list_2
        /\ response[p].value = response[q].value
        /\ accepted = 3
        /\ Len(payloads) = 2

\* C3: validation. A build with lists of different lengths ends at once with
\* 400 "Lists must be of the same length.", transforms no element, and the
\* step that handles it changes neither table.
C3_Validation ==
    [][\A p \in Procs :
        (request'[p].sent /\ Len(request'[p].list_1) # Len(request'[p].list_2)) =>
            /\ pc'[p] = "done"
            /\ response'[p] = Response400
            /\ transformed_1'[p] = <<>> /\ transformed_2'[p] = <<>>
            /\ (request[p] # request'[p] =>
                    cached_results' = cached_results /\ payloads' = payloads)]_vars

\* a rejected build on a store that holds rows of both tables
C3_Witness ==
    \E p \in Procs :
        /\ BuildRejected(p)
        /\ response[p] = Response400
        /\ Len(request[p].list_1) = 1 /\ Len(request[p].list_2) = 0
        /\ Len(cached_results) > 0 /\ Len(payloads) > 0

\* C4: not found. A lookup of an identifier that no Payload row carries ends
\* with 404 "Payload not found."; a lookup that returns an output returns the
\* output of a stored row with that identifier.
C4_NotFound ==
    [][\A p \in Procs :
        (/\ pc'[p] = "done" /\ response'[p] # response[p]
         /\ response'[p].key \in {"output", "detail"}
         /\ response'[p].status_code # 400) =>
            /\ (PayloadRows(identifier'[p]) = {} => response'[p] = Response404)
            /\ (PayloadRows(identifier'[p]) # {} =>
                    \E i \in PayloadRows(identifier'[p]) :
                        response'[p] = Response200("output", payloads[i].output))]_vars

\* a lookup of the digest of a joined string that was never built, on a store
\* that holds other payloads
C4_Witness ==
    \E p \in Procs :
        /\ LookupDone(p)
        /\ response[p] = Response404
        /\ identifier[p] # NonexistentIdentifier
        /\ PayloadRows(identifier[p]) = {}
        /\ Len(payloads) > 0

\* C5: idempotent insert. Under sequential requests there is at most one
\* CachedResult row per input string.
C5_IdempotentInsert ==
    \A i, j \in 1..Len(cached_results) :
        cached_results[i].input_string = cached_results[j].input_string => i = j

\* a build that asked for the same string twice, after another request had
\* cached that string, and one row for it
C5_Witness ==
    \E p \in Procs :
        /\ BuildDone(p)
        /\ request[p].list_1 = <<<<97>>>> /\ request[p].list_2 = <<<<97>>>>
        /\ Cardinality(CachedRows(<<97>>)) = 1
        /\ accepted >= 2
        /\ Len(cached_results) >= 2
        /\ cached_results[1].input_string = <<97>>

\* C6: determinism. Every value that get_or_cache_transformation has returned,
\* from the cache or freshly computed, is the upper case form of its input,
\* the empty string included.
C6_Determinism ==
    \A p \in Procs :
        /\ \A i \in 1..Len(transformed_1[p]) :
                transformed_1[p][i] = Uppercase(request[p].list_1[i])
        /\ \A i \in 1..Len(transformed_2[p]) :
                transformed_2[p][i] = Uppercase(request[p].list_2[i])

\* the second call for a string in one request (a cache hit), for the empty
\* string and for "a"
C6_Witness ==
    /\ \E p \in Procs :
        /\ request[p].list_1 = <<<<>>>> /\ request[p].list_2 = <<<<>>>>
        /\ transformed_2[p] = <<<<>>>>
    /\ \E q \in Procs :
        /\ request[q].list_1 = <<<<97>>>> /\ request[q].list_2 = <<<<97>>>>
        /\ transformed_2[q] = <<<<65>>>>
    /\ Cardinality(CachedRows(<<97>>)) = 1

\* C7: interleave and join. The Payload row a build on a fresh store creates
\* holds transform(list1[0]), transform(list2[0]), transform(list1[1]), ...
\* joined with ", ", with no leading or trailing separator (the empty string
\* for two empty lists).
C7_InterleaveJoin ==
    BuildDone(1) =>
        payloads = <<[id |-> 1, identifier |-> response[1].value,
                      output |-> ExpectedJoined(request[1].list_1, request[1].list_2)]>>

\* a build of two lists of three strings: "A, , A, A, , A"
C7_Witness ==
    /\ BuildDone(1)
    /\ request[1].list_1 = << <<97>>, <<65>>, <<>> >>
    /\ request[1].list_2 = << <<>>, <<97>>, <<65>> >>
    /\ payloads[1].output = <<65, 44, 32, 44, 32, 65, 44, 32, 65, 44, 32, 44, 32, 65>>

\* C8: payload uniqueness. At most one Payload row per identifier, also under
\* concurrent builds.
C8_PayloadUnique ==
    \A i, j \in 1..Len(payloads) :
        payloads[i].identifier = payloads[j].identifier => i = j

\* C9: order independence. The identifier a build returns is the digest of
\* the joined string of its own lists, and the output a lookup returns is the
\* string whose digest is the identifier asked for, whatever the store held
\* and whatever order and interleaving the requests ran in.
C9_OrderIndependence ==
    \A p \in Procs :
        /\ BuildDone(p) =>
                response[p].value =
                    Md5HexDigest(ExpectedJoined(request[p].list_1, request[p].list_2))
        /\ (LookupDone(p) /\ response[p].status_code = 200) =>
                Md5HexDigest(response[p].value) = identifier[p]

\* two builds with different results, the later worker's row stored first
C9_Witness ==
    \E p, q \in Procs :
        /\ p < q /\ BuildDone(p) /\ BuildDone(q)
        /\ response[p].value # response[q].value
        /\ Len(payloads) >= 2
        /\ payloads[1].identifier = response[q].value
        /\ cached_results[1].input_string \in {request[q].list_1[1], request[q].list_2[1]}

\* C10: records are never mutated and never deleted. Every step leaves every
\* existing row of both tables in place and unchanged; the tables only grow.
C10_RecordsKept ==
    [][/\ Len(cached_results') >= Len(cached_results)
       /\ \A i \in 1..Len(cached_results) : cached_results'[i] = cached_results[i]
       /\ Len(payloads') >= Len(payloads)
       /\ \A i \in 1..Len(payloads) : payloads'[i] = payloads[i]]_vars

\* both tables hold several rows, duplicates among them
C10_Witness ==
    /\ Len(cached_results) >= 3
    /\ Len(payloads) >= 3
    /\ \E i, j \in 1..Len(payloads) :
            i # j /\ payloads[i].identifier = payloads[j].identifier

\* the rows of a CachedResult table with input string str
RowsWithInput(table, str) == {i \in 1..Len(table) : table[i].input_string = str}

\* worker p takes the step that follows its select of the cache
LeavesCacheSelect(p) == pc[p] = "cache_select" /\ pc'[p] # "cache_select"

\* worker p takes the step that inserts into the cache
LeavesCacheInsert(p) == pc[p] = "cache_insert" /\ pc'[p] # "cache_insert"

\* C11: race in the transformation cache. A call misses exactly when no row
\* holds its input at the moment of its select, and a call that has missed
\* inserts its row whatever other calls have inserted since, so two concurrent
\* calls for the same unseen input both miss and both insert: a state with two
\* rows for one input is reached.
C11_CacheRace ==
    [][\A p \in Procs :
        /\ LeavesCacheSelect(p) =>
                (pc'[p] = "cache_insert" <=> CachedRows(CurrentInput(p)) = {})
        /\ LeavesCacheInsert(p) =>
                /\ Len(cached_results') = Len(cached_results) + 1
                /\ Cardinality(RowsWithInput(cached_results', CurrentInput(p)))
                        = Cardinality(CachedRows(CurrentInput(p))) + 1]_vars

\* two rows for "a", inserted by two requests that both end normally
C11_Witness ==
    /\ Cardinality(CachedRows(<<97>>)) = 2
    /\ \E p, q \in Procs :
            /\ p # q /\ BuildDone(p) /\ BuildDone(q)
            /\ request[p].list_1 = <<<<97>>>> /\ request[q].list_1 = <<<<97>>>>
    /\ accepted = 2

\* C12: correctness of the cache under concurrency. In every reachable state,
\* whatever the interleaving, every CachedResult row holds the upper case
\* form of its input, so rows with the same input hold the same output, and
\* every value a call has returned is the upper case form of its input,
\* whichever of the duplicate rows its select picked.
C12_CacheCorrect ==
    /\ \A i \in 1..Len(cached_results) :
            cached_results[i].transformed_string = Uppercase(cached_results[i].input_string)
    /\ \A i, j \in 1..Len(cached_results) :
            cached_results[i].input_string = cached_results[j].input_string =>
                cached_results[i].transformed_string = cached_results[j].transformed_string
    /\ \A p \in Procs :
            /\ Len(transformed_1[p]) <= Len(request[p].list_1)
            /\ Len(transformed_2[p]) <= Len(request[p].list_2)
            /\ \A i \in 1..Len(transformed_1[p]) :
                    transformed_1[p][i] = Uppercase(request[p].list_1[i])
            /\ \A i \in 1..Len(transformed_2[p]) :
                    transformed_2[p][i] = Uppercase(request[p].list_2[i])

\* two rows for "a" from a race, then a request that inserted "" after them
\* and got "A" for "a" from a select that found both rows
C12_Witness ==
    /\ Len(cached_results) = 3
    /\ cached_results[1].input_string = <<97>>
    /\ cached_results[2].input_string = <<97>>
    /\ cached_results[3].input_string = <<>>
    /\ \E p \in Procs :
            /\ request[p].list_1 = <<<<>>>> /\ request[p].list_2 = <<<<97>>>>
            /\ transformed_1[p] = <<<<>>>> /\ transformed_2[p] = <<<<65>>>>

\* the MD5 digests of the joined strings of one-element and empty lists, as
\* RFC 1321 implementations print them:
\*   ""      d41d8cd98f00b204e9800998ecf8427e
\*   ", "    fc763cb31e9938f37737394681228f83
\*   "A, "   47c98283372fbcca60eccdd14d843857
\*   ", A"   02ae1dce704517c99bcc58c8ac39634b
\*   "A, A"  2ab95f1dd3ece8045089c250670f81b9
KnownDigests ==
    {<<<<>>,
       <<100, 52, 49, 100, 56, 99, 100, 57, 56, 102, 48, 48, 98, 50, 48, 52,
         101, 57, 56, 48, 48, 57, 57, 56, 101, 99, 102, 56, 52, 50, 55, 101>>>>,
     <<<<44, 32>>,
       <<102, 99, 55, 54, 51, 99, 98, 51, 49, 101, 57, 57, 51, 56, 102, 51,
         55, 55, 51, 55, 51, 57, 52, 54, 56, 49, 50, 50, 56, 102, 56, 51>>>>,
     <<<<65, 44, 32>>,
       <<52, 55, 99, 57, 56, 50, 56, 51, 51, 55, 50, 102, 98, 99, 99, 97,
         54, 48, 101, 99, 99, 100, 100, 49, 52, 100, 56, 52, 51, 56, 53, 55>>>>,
     <<<<44, 32, 65>>,
       <<48, 50, 97, 101, 49, 100, 99, 101, 55, 48, 52, 53, 49, 55, 99, 57,
         57, 98, 99, 99, 53, 56, 99, 56, 97, 99, 51, 57, 54, 51, 52, 98>>>>,
     <<<<65, 44, 32, 65>>,
       <<50, 97, 98, 57, 53, 102, 49, 100, 100, 51, 101, 99, 101, 56, 48, 52,
         53, 48, 56, 57, 99, 50, 53, 48, 54, 55, 48, 102, 56, 49, 98, 57>>>>}

\* MD5hex(UTF-8(str)): the known digest where one is listed
ExpectedDigest(str) ==
    IF \E kd \in KnownDigests : kd[1] = str
    THEN (CHOOSE kd \in KnownDigests : kd[1] = str)[2]
    ELSE Md5HexDigest(str)

\* C13: identifier integrity. Every Payload row satisfies
\* identifier = MD5hex(UTF-8(output)): no row is stored under an identifier
\* derived from another string.
C13_IdentifierIntegrity ==
    \A i \in 1..Len(payloads) :
        payloads[i].identifier = ExpectedDigest(payloads[i].output)

\* rows for "A, A" and for the empty string, stored by different requests
C13_Witness ==
    /\ Len(payloads) >= 2
    /\ payloads[1].output = <<65, 44, 32, 65>>
    /\ \E i \in 1..Len(payloads) :
            /\ payloads[i].output = <<>>
            /\ payloads[i].identifier = ExpectedDigest(<<>>)

\* worker p takes the step that follows its select of the payload
LeavesPayloadSelect(p) == pc[p] = "payload_select" /\ pc'[p] # "payload_select"

\* C14: a payload hit is a no-op on the Payload table. When a build finds a
\* Payload row with the identifier of its joined string, it answers 200 with
\* that identifier and adds or changes no row of either table, also when its
\* lists differ from those of the request that stored the row.
C14_PayloadHit ==
    [][\A p \in Procs :
        LET ident == ExpectedDigest(ExpectedJoined(request[p].list_1, request[p].list_2))
        IN  (LeavesPayloadSelect(p) /\ PayloadRows(ident) # {}) =>
                /\ payloads' = payloads
                /\ cached_results' = cached_results
                /\ pc'[p] = "done"
                /\ response'[p] = Response200("identifier", ident)]_vars

\* builds of ["a"], [""] and of ["A"], [""]: the same identifier, one row
C14_Witness ==
    \E p, q \in Procs :
        /\ BuildDone(p) /\ BuildDone(q)
        /\ request[p].list_1 = <<<<97>>>> /\ request[p].list_2 = <<<<>>>>
        /\ request[q].list_1 = <<<<65>>>> /\ request[q].list_2 = <<<<>>>>
        /\ response[p] = response[q]
        /\ payloads = <<[id |-> 1, identifier |-> response[p].value,
                         output |-> <<65, 44, 32>>]>>

\* C15: a cache hit has no side effect. A call whose input has a row returns
\* the transformed_string of a row with that input, does not go on to the
\* transformation and the insert, and leaves both tables unchanged.
C15_CacheHit ==
    [][\A p \in Procs :
        (LeavesCacheSelect(p) /\ CachedRows(CurrentInput(p)) # {}) =>
            /\ cached_results' = cached_results
            /\ payloads' = payloads
            /\ pc'[p] # "cache_insert"
            /\ \E i \in CachedRows(CurrentInput(p)) :
                    \/ /\ transformed_1'[p] = Append(transformed_1[p],
                                                     cached_results[i].transformed_string)
                       /\ transformed_2'[p] = transformed_2[p]
                    \/ /\ transformed_2'[p] = Append(transformed_2[p],
                                                     cached_results[i].transformed_string)
                       /\ transformed_1'[p] = transformed_1[p]]_vars

\* a request for "a", "a" whose calls were answered from the row that an
\* earlier request had stored
C15_Witness ==
    \E p, q \in Procs :
        /\ p # q /\ BuildDone(q)
        /\ request[q].list_1 = <<<<97>>>> /\ request[q].list_2 = <<<<97>>>>
        /\ request[p] = request[q]
        /\ pc[p] = "payload_select"
        /\ transformed_1[p] = <<<<65>>>> /\ transformed_2[p] = <<<<65>>>>
        /\ Len(cached_results) = 1 /\ Len(payloads) = 1

\* the distinct strings of an equal-length build request (none of a request
\* that is rejected)
StringsOf(req) ==
    IF Len(req.list_1) = Len(req.list_2)
    THEN {req.list_1[i] : i \in 1..Len(req.list_1)}
            \cup {req.list_2[i] : i \in 1..Len(req.list_2)}
    ELSE {}

\* the build of worker p has made all its calls of the cache, or was rejected
PastCache(p) ==
    request[p].sent /\ pc[p] \in {"payload_select", "payload_insert", "done"}

\* the workers that hold a build request
Builders == {p \in Procs : request[p].sent}

\* C16: growth of the cache. Under sequential requests a build adds exactly
\* one CachedResult row for each distinct string of its lists that had no row
\* (a repeated string once), also when it then finds an existing payload, and
\* nothing else adds a row: the rows are those of the distinct strings that
\* appeared in equal-length builds, one each.
C16_CacheGrowth ==
    /\ [](\A p \in Procs : PastCache(p) =>
                \A str \in StringsOf(request[p]) : Cardinality(CachedRows(str)) = 1)
    /\ []((accepted = Cardinality(Builders) /\ \A p \in Builders : PastCache(p)) =>
                Len(cached_results)
                    = Cardinality(UNION {StringsOf(request[p]) : p \in Builders}))
    /\ [][/\ cached_results' # cached_results => \E p \in Procs : LeavesCacheInsert(p)
          /\ \A p \in Procs : LeavesCacheInsert(p) =>
                /\ Len(request[p].list_1) = Len(request[p].list_2)
                /\ CachedRows(CurrentInput(p)) = {}
                /\ cached_results' = Append(cached_results,
                        [id |-> Len(cached_results) + 1,
                         input_string |-> CurrentInput(p),
                         transformed_string |-> Uppercase(CurrentInput(p))])]_vars

\* a build of "a", "a", then a build of "A", "A" that found the payload of
\* the first: two rows in the cache, one payload
C16_Witness ==
    \E p, q \in Procs :
        /\ BuildDone(p) /\ BuildDone(q)
        /\ request[q].list_1 = <<<<97>>>> /\ request[q].list_2 = <<<<97>>>>
        /\ request[p].list_1 = <<<<65>>>> /\ request[p].list_2 = <<<<65>>>>
        /\ accepted = 2
        /\ Len(payloads) = 1
        /\ Len(cached_results) = 2
        /\ cached_results[1].input_string = <<97>>

\* worker p handles a GET /payload/{identifier} in this step
LookupStep(p) ==
    /\ accepted' = accepted + 1
    /\ pc'[p] = "done"
    /\ response'[p] # response[p]
    /\ response'[p].status_code # 400

\* C17: stored payloads stay retrievable under concurrency. Once a build has
\* returned an identifier, the rows with that identifier hold the joined
\* string of its lists and stay in the table, and every lookup of the
\* identifier from then on answers 200 with that string, never 404, also when
\* concurrent builds have stored several rows with the identifier.
C17_Retrievable ==
    /\ [](\A q \in Procs : BuildDone(q) =>
                /\ PayloadRows(response[q].value) # {}
                /\ \A i \in PayloadRows(response[q].value) :
                        payloads[i].output
                            = ExpectedJoined(request[q].list_1, request[q].list_2))
    /\ [](\A i, j \in 1..Len(payloads) :
                payloads[i].identifier = payloads[j].identifier =>
                    payloads[i].output = payloads[j].output)
    /\ [][/\ Len(payloads') >= Len(payloads)
          /\ \A i \in 1..Len(payloads) : payloads'[i] = payloads[i]
          /\ \A p \in Procs :
                (LookupStep(p) /\ PayloadRows(identifier'[p]) # {}) =>
                    \E i \in PayloadRows(identifier'[p]) :
                        response'[p] = Response200("output", payloads[i].output)
          /\ \A p, q \in Procs :
                (LookupStep(p) /\ BuildDone(q) /\ response[q].value = identifier'[p]) =>
                    response'[p] = Response200("output",
                        ExpectedJoined(request[q].list_1, request[q].list_2))]_vars

\* two concurrent builds have stored two rows with one identifier; one of the
\* clients then asks for it and receives the joined string
C17_Witness ==
    \E p, q \in Procs :
        /\ p # q /\ BuildDone(q) /\ LookupDone(p)
        /\ response[q].value = identifier[p]
        /\ Cardinality(PayloadRows(identifier[p])) = 2
        /\ request[q].list_1 = <<<<97>>>> /\ request[q].list_2 = <<<<65>>>>
        /\ response[p] = Response200("output", <<65, 44, 32, 65>>)

\* C18: a lookup is read-only. A GET /payload/{identifier}, answered with 200
\* or with 404, leaves both tables unchanged.
C18_LookupReadOnly ==
    [][\A p \in Procs :
        LookupStep(p) =>
            /\ response'[p].status_code \in {200, 404}
            /\ cached_results' = cached_results
            /\ payloads' = payloads]_vars

\* a lookup answered with 200 and a lookup answered with 404, on a store that
\* holds rows of both tables
C18_Witness ==
    \E p, q \in Procs :
        /\ LookupDone(p) /\ response[p].status_code = 200
        /\ LookupDone(q) /\ response[q] = Response404
        /\ Len(cached_results) > 0 /\ Len(payloads) > 0

\* C19: scoped store session. Every request holds exactly one Session while
\* it is handled, and none once it has ended, whether with success, with the
\* 400 of the length check or with the 404 of a lookup.
C19_SessionScoped ==
    \A p \in Procs :
        /\ InProgress(p) => session[p] = 1
        /\ ~InProgress(p) => session[p] = 0

\* a build rejected with 400 and a lookup answered with 404, after a build
\* that had stored its payload, and no Session open
C19_Witness ==
    \E p, q \in Procs :
        /\ BuildRejected(p)
        /\ LookupDone(q) /\ response[q] = Response404
        /\ Len(payloads) = 1
        /\ accepted = 3
        /\ \A w \in Procs : session[w] = 0

====
